---- MODULE Spec2Model ----
(***************************************************************************)
(* BB84 key exchange simulation and eavesdropper detection of              *)
(* quantum_crypto: ui/app.py (measure_qubit, bb84_protocol,                *)
(* calculate_error_rate, detect_eve) and quantum/eve_detection.py          *)
(* (EveDetector and its module-level wrappers).                            *)
(*                                                                         *)
(* Python lists and strings are modelled as TLA+ sequences; Python index i *)
(* is TLA+ index i + 1.  A call of random.randint(0, 1) is a               *)
(* nondeterministic choice in {0, 1}.  A Python float that the code        *)
(* computes as a quotient of two small integers is modelled as the reduced *)
(* fraction <<numerator, denominator>>; for the lengths used here two      *)
(* such quotients are equal, or ordered, as floats exactly when the        *)
(* fractions are, and the float literals 0.1 and 0.25 compare to them as   *)
(* 1/10 and 1/4 do.                                                        *)
(***************************************************************************)
EXTENDS Integers, Sequences, FiniteSets, TLC

VARIABLES
    pc,           \* position of the bb84_protocol run
    num_bits,     \* bb84_protocol argument
    eve_present,  \* bb84_protocol argument
    alice_bits, alice_bases, qubits, eve_bases, bob_bases, bob_bits,
    key_alice, key_bob, test_bits, error_rate, eve_detected,
    phase,        \* "idle", or "returned" once a detector function has returned
    call,         \* the detector function last called, with its arguments
    ret,          \* what that call handed to its caller
    error_threshold, measurement_history, error_rates,  \* one EveDetector
    request,      \* the request exchange_key is serving, if any
    response,     \* what exchange_key hands to its caller, once it has
    quantum_state,  \* the module-level dict of app.py
    chat_history,   \* the module-level dict of app.py
    emitted,        \* what sio.emit has sent, in order
    requests        \* the requests being served: position and local names

bb84vars == <<pc, num_bits, eve_present, alice_bits, alice_bases, qubits,
              eve_bases, bob_bases, bob_bits, key_alice, key_bob, test_bits,
              error_rate, eve_detected>>

callvars == <<phase, call, ret>>

detvars == <<error_threshold, measurement_history, error_rates>>

reqvars == <<quantum_state, chat_history, emitted, requests>>

appvars == <<request, response, reqvars>>

vars == <<bb84vars, callvars, detvars, appvars>>

\* Largest num_bits of a modelled bb84_protocol run.
MaxBits == 2

Bit == {0, 1}

BitSeqs(n) == [1..n -> Bit]

Min(a, b) == IF a < b THEN a ELSE b

RECURSIVE GCD(_, _)
GCD(a, b) == IF b = 0 THEN a ELSE GCD(b, a % b)

\* The float n / d (d > 0, n >= 0), as a reduced fraction.
Quot(n, d) == LET g == GCD(n, d) IN <<n \div g, d \div g>>

\* Float comparison a > b of two quotients.
RateGT(a, b) == a[1] * b[2] > b[1] * a[2]

-----------------------------------------------------------------------------
(* ui/app.py: measure_qubit and bb84_protocol *)

MeasureRandom(qubit_state, measurement_basis) == Bit

\* The values measure_qubit(qubit_state, measurement_basis) can return.
\* qubit_state is the tuple (bit, basis).
MeasureQubit(qubit_state, measurement_basis) ==
    IF measurement_basis = qubit_state[2]
    THEN {qubit_state[1]}
    ELSE Bit

\* The list [measure_qubit(qs[i], bases[i]) for i in range(n)]: every list of
\* results the n calls can produce.
MeasureAll(qs, bases, n) ==
    {m \in BitSeqs(n) : \A i \in 1..n : m[i] \in MeasureQubit(qs[i], bases[i])}

\* Mutation of EveResend: Eve resends the opposite of what she measured.
EveResendFlipped(qubit_state, measured_bit, eve_basis) ==
    <<1 - measured_bit, eve_basis>>

ResendOriginalBasis(qubit_state, measured_bit, eve_basis) ==
    <<measured_bit, qubit_state[2]>>

\* qubits[i] = (measured_bit, eve_bases[i])
EveResend(qubit_state, measured_bit, eve_basis) == <<measured_bit, eve_basis>>

RECURSIVE SiftReversedFrom(_, _, _, _, _, _, _, _)
SiftReversedFrom(i, ka, kb, abits, abases, bbits, bbases, n) ==
    IF i > n THEN <<ka, kb>>
    ELSE IF abases[i] = bbases[i]
         THEN SiftReversedFrom(i + 1, <<abits[i]>> \o ka, <<bbits[i]>> \o kb,
                               abits, abases, bbits, bbases, n)
         ELSE SiftReversedFrom(i + 1, ka, kb, abits, abases, bbits, bbases, n)

SiftReversed(abits, abases, bbits, bbases, n) ==
    SiftReversedFrom(1, <<>>, <<>>, abits, abases, bbits, bbases, n)

\* The loop of lines 131-134 from index i on, with the keys built so far.
RECURSIVE SiftFrom(_, _, _, _, _, _, _, _)
SiftFrom(i, ka, kb, abits, abases, bbits, bbases, n) ==
    IF i > n THEN <<ka, kb>>
    ELSE IF abases[i] = bbases[i]
         THEN SiftFrom(i + 1, Append(ka, abits[i]), Append(kb, bbits[i]),
                       abits, abases, bbits, bbases, n)
         ELSE SiftFrom(i + 1, ka, kb, abits, abases, bbits, bbases, n)

SiftAllOfBob(abits, abases, bbits, bbases, n) ==
    <<SiftFrom(1, <<>>, <<>>, abits, abases, bbits, bbases, n)[1], bbits>>

\* key_alice, key_bob = [], [] and the loop over range(num_bits).
Sift(abits, abases, bbits, bbases, n) ==
    SiftFrom(1, <<>>, <<>>, abits, abases, bbits, bbases, n)

\* Mutation of Samples: every index of the key is compared.
SamplesAll(len_key, k) == {1..len_key}

\* random.sample(range(len_key), k) draws k distinct indices.  The code only
\* iterates over the sample, takes its length and tests it for emptiness, so
\* the order of the draw is not kept: the sample is the set of its indices.
Samples(len_key, k) == {s \in SUBSET (1..len_key) : Cardinality(s) = k}

\* Mutation of SampleErrors: the sampled positions that agree are counted.
SampleAgreements(ka, kb, tb) == Cardinality({i \in tb : ka[i] = kb[i]})

\* sum(1 for i in test_bits if key_alice[i] != key_bob[i])
SampleErrors(ka, kb, tb) == Cardinality({i \in tb : ka[i] # kb[i]})

\* errors / len(test_bits) if test_bits else 0
SampleRate(ka, kb, tb) ==
    IF tb # {} THEN Quot(SampleErrors(ka, kb, tb), Cardinality(tb)) ELSE <<0, 1>>

\* No bb84_protocol run has started.
BB84Idle ==
    /\ pc = "start"
    /\ num_bits = 0
    /\ eve_present = FALSE
    /\ alice_bits = <<>>
    /\ alice_bases = <<>>
    /\ qubits = <<>>
    /\ eve_bases = <<>>
    /\ bob_bases = <<>>
    /\ bob_bits = <<>>
    /\ key_alice = <<>>
    /\ key_bob = <<>>
    /\ test_bits = {}
    /\ error_rate = <<0, 1>>
    /\ eve_detected = FALSE

\* No detector function has been called.
CallsIdle ==
    /\ phase = "idle"
    /\ call = [fn |-> "none"]
    /\ ret = [raised |-> FALSE, value |-> "none"]

\* The value None, and any other argument that has no length.
NoLength == <<-1>>

None == NoLength

\* The two users of the demo; request r is posted by Senders[r].
Senders == <<"subhash", "ram">>

Requests == DOMAIN Senders

\* app.py as imported: the module-level dicts, and no request received.
RequestsIdle ==
    /\ quantum_state = [key_alice |-> None, key_bob |-> None,
                        error_rate |-> <<0, 1>>, eve_detected |-> FALSE]
    /\ chat_history = [sender \in {"subhash", "ram"} |-> <<>>]
    /\ emitted = <<>>
    /\ requests = [r \in Requests |-> [pc |-> "start"]]

\* No request is being served and none has been answered.
AppIdle ==
    /\ request = [pending |-> FALSE]
    /\ response = [sent |-> FALSE]
    /\ RequestsIdle

InitBB84 ==
    /\ BB84Idle
    /\ CallsIdle
    /\ AppIdle
    /\ error_threshold = <<1, 10>>
    /\ measurement_history = <<>>
    /\ error_rates = <<>>

\* Call with arguments (n, eve); Alice draws her bits and bases and the
\* qubits list(zip(alice_bits, alice_bases)) is created.
AlicePrepares ==
    /\ pc = "start"
    /\ \E n \in 0..MaxBits, eve \in BOOLEAN :
         /\ num_bits' = n
         /\ eve_present' = eve
         /\ \E bits \in BitSeqs(n), bases \in BitSeqs(n) :
              /\ alice_bits' = bits
              /\ alice_bases' = bases
              /\ qubits' = [i \in 1..n |-> <<bits[i], bases[i]>>]
    /\ pc' = "eve"
    /\ UNCHANGED <<callvars, detvars, appvars,
                   eve_bases, bob_bases, bob_bits, key_alice, key_bob,
                   test_bits, error_rate, eve_detected>>

\* if eve_present: Eve draws her bases, measures every qubit and resends.
EveIntercepts ==
    /\ pc = "eve"
    /\ eve_present
    /\ \E eb \in BitSeqs(num_bits) :
         \E measured \in MeasureAll(qubits, eb, num_bits) :
            /\ eve_bases' = eb
            /\ qubits' = [i \in 1..num_bits |->
                            EveResend(qubits[i], measured[i], eb[i])]
    /\ pc' = "bob_bases"
    /\ UNCHANGED <<callvars, detvars, appvars,
                   num_bits, eve_present, alice_bits, alice_bases, bob_bases,
                   bob_bits, key_alice, key_bob, test_bits, error_rate,
                   eve_detected>>

\* eve_present is false: the block is skipped.
NoEve ==
    /\ pc = "eve"
    /\ ~eve_present
    /\ pc' = "bob_bases"
    /\ UNCHANGED <<callvars, detvars, appvars,
                   num_bits, eve_present, alice_bits, alice_bases, qubits,
                   eve_bases, bob_bases, bob_bits, key_alice, key_bob,
                   test_bits, error_rate, eve_detected>>

BobDrawsBases ==
    /\ pc = "bob_bases"
    /\ \E bb \in BitSeqs(num_bits) : bob_bases' = bb
    /\ pc' = "bob_measure"
    /\ UNCHANGED <<callvars, detvars, appvars,
                   num_bits, eve_present, alice_bits, alice_bases, qubits,
                   eve_bases, bob_bits, key_alice, key_bob, test_bits,
                   error_rate, eve_detected>>

BobMeasures ==
    /\ pc = "bob_measure"
    /\ \E measured \in MeasureAll(qubits, bob_bases, num_bits) :
         bob_bits' = measured
    /\ pc' = "sift"
    /\ UNCHANGED <<callvars, detvars, appvars,
                   num_bits, eve_present, alice_bits, alice_bases, qubits,
                   eve_bases, bob_bases, key_alice, key_bob, test_bits,
                   error_rate, eve_detected>>

SiftKeys ==
    /\ pc = "sift"
    /\ LET keys == Sift(alice_bits, alice_bases, bob_bits, bob_bases, num_bits)
       IN /\ key_alice' = keys[1]
          /\ key_bob' = keys[2]
    /\ pc' = "test"
    /\ UNCHANGED <<callvars, detvars, appvars,
                   num_bits, eve_present, alice_bits, alice_bases, qubits,
                   eve_bases, bob_bases, bob_bits, test_bits, error_rate,
                   eve_detected>>

\* len(key_alice) > 0: sample, count the errors, compare the rate with 0.25.
TestSample ==
    /\ pc = "test"
    /\ Len(key_alice) > 0
    /\ \E tb \in Samples(Len(key_alice), Min(3, Len(key_alice))) :
         /\ test_bits' = tb
         /\ error_rate' = SampleRate(key_alice, key_bob, tb)
         /\ eve_detected' = RateGT(SampleRate(key_alice, key_bob, tb), <<1, 4>>)
    /\ pc' = "done"
    /\ UNCHANGED <<callvars, detvars, appvars,
                   num_bits, eve_present, alice_bits, alice_bases, qubits,
                   eve_bases, bob_bases, bob_bits, key_alice, key_bob>>

\* else: eve_detected = True
TestEmptyKey ==
    /\ pc = "test"
    /\ Len(key_alice) = 0
    /\ eve_detected' = TRUE
    /\ pc' = "done"
    /\ UNCHANGED <<callvars, detvars, appvars,
                   num_bits, eve_present, alice_bits, alice_bases, qubits,
                   eve_bases, bob_bases, bob_bits, key_alice, key_bob,
                   test_bits, error_rate>>

NextBB84 ==
    \/ AlicePrepares
    \/ EveIntercepts
    \/ NoEve
    \/ BobDrawsBases
    \/ BobMeasures
    \/ SiftKeys
    \/ TestSample
    \/ TestEmptyKey

SpecBB84 == InitBB84 /\ [][NextBB84]_vars

(* A run of bb84_protocol with eve_present = True as a function of what   *)
(* random.randint(0, 1) returns.  Every call returns 0 or 1 with equal     *)
(* probability and independently of the others, so the runs that follow    *)
(* Alice's draw are weighted by counting draws: a draw holds one value for *)
(* every call that can be made, used or not.                               *)

\* Mutation of MeasureQubitWith: the bit the qubit carries is read in any
\* basis.
MeasureQubitUndisturbed(qubit_state, measurement_basis, drawn) ==
    qubit_state[1]

\* measure_qubit(qubit_state, measurement_basis), drawn being what
\* random.randint(0, 1) returns if it is called.
MeasureQubitWith(qubit_state, measurement_basis, drawn) ==
    IF measurement_basis = qubit_state[2]
    THEN qubit_state[1]
    ELSE drawn

\* A draw: eve_bases, the values for Eve's measure_qubit calls, bob_bases,
\* and the values for Bob's measure_qubit calls.
Draws(n) == BitSeqs(n) \X BitSeqs(n) \X BitSeqs(n) \X BitSeqs(n)

\* The qubits after Eve's loop.
ResentWith(abits, abases, draw, n) ==
    [i \in 1..n |->
        EveResend(<<abits[i], abases[i]>>,
                  MeasureQubitWith(<<abits[i], abases[i]>>, draw[1][i],
                                   draw[2][i]),
                  draw[1][i])]

\* bob_bits
BobBitsWith(abits, abases, draw, n) ==
    [i \in 1..n |->
        MeasureQubitWith(ResentWith(abits, abases, draw, n)[i], draw[3][i],
                         draw[4][i])]

\* key_alice and key_bob of the run.
KeysWith(abits, abases, draw, n) ==
    Sift(abits, abases, BobBitsWith(abits, abases, draw, n), draw[3], n)

\* The positions at which the two keys differ.
Mismatches(keys) == {i \in 1..Len(keys[1]) : keys[1][i] # keys[2][i]}

(* The eavesdropping test of bb84_protocol on longer sifted keys: runs in  *)
(* which Alice and Bob drew basis 0 throughout and Eve basis 1, taken up   *)
(* from the point where the keys have been sifted.  In such a run Eve's    *)
(* results, and Bob's on the qubits she resent, are random, so every pair  *)
(* of keys of the same length arises.                                      *)

\* Largest sifted key of a run taken up at the test.
MaxKeyLen == 4

InitTest ==
    /\ pc = "test"
    /\ eve_present = TRUE
    /\ \E n \in 0..MaxKeyLen :
         /\ num_bits = n
         /\ alice_bits \in BitSeqs(n)
         /\ alice_bases = [i \in 1..n |-> 0]
         /\ eve_bases = [i \in 1..n |-> 1]
         /\ \E resent \in BitSeqs(n) :
              qubits = [i \in 1..n |-> <<resent[i], 1>>]
         /\ bob_bases = [i \in 1..n |-> 0]
         /\ bob_bits \in BitSeqs(n)
    /\ key_alice = alice_bits
    /\ key_bob = bob_bits
    /\ test_bits = {}
    /\ error_rate = <<0, 1>>
    /\ eve_detected = FALSE
    /\ CallsIdle
    /\ AppIdle
    /\ error_threshold = <<1, 10>>
    /\ measurement_history = <<>>
    /\ error_rates = <<>>

NextTest ==
    \/ TestSample
    \/ TestEmptyKey

SpecTest == InitTest /\ [][NextTest]_vars

-----------------------------------------------------------------------------
(* quantum/eve_detection.py and the detector functions of ui/app.py.       *)
(* A string of bases such as "0101" is the sequence of its characters,     *)
(* written here with the bits 0 and 1.                                     *)

\* Longest argument string of a modelled call of a detector function.
MaxLen == 4

\* Longest argument string given to the modelled EveDetector instance.
MaxRecLen == 1

\* Most detect_eve calls made on the modelled EveDetector instance.
MaxCalls == 2

Strings(n) == UNION {BitSeqs(k) : k \in 0..n}

\* The thresholds a detector is built with: 0.1 is the default of
\* eve_detection.py, 0.25 the threshold of app.py; the others stand for a
\* caller's choice.
Thresholds == {<<0, 1>>, <<1, 10>>, <<1, 4>>, <<1, 2>>, <<1, 1>>}

\* The thresholds of the modelled EveDetector instance: the default 0.1 and
\* the 0.25 of app.py.
InstanceThresholds == {<<1, 10>>, <<1, 4>>}

One == <<1, 1>>

\* What a call does: it returns a value, or it raises.
Return(v) == [raised |-> FALSE, value |-> v]

Raise(e) == [raised |-> TRUE, value |-> e]

RECURSIVE ZipMatches(_, _)
ZipMatches(a, b) ==
    IF a = <<>> \/ b = <<>> THEN 0
    ELSE (IF Head(a) = Head(b) THEN 1 ELSE 0) + ZipMatches(Tail(a), Tail(b))

\* sum(1 for m, r in zip(measured_bases, received_bases) if m != r)
RECURSIVE ZipErrors(_, _)
ZipErrors(a, b) ==
    IF a = <<>> \/ b = <<>> THEN 0
    ELSE (IF Head(a) # Head(b) THEN 1 ELSE 0) + ZipErrors(Tail(a), Tail(b))

ErrorRateTryGuardInverted(measured_bases, received_bases) ==
    IF Len(measured_bases) = Len(received_bases) THEN Return(One)
    ELSE IF Len(measured_bases) = 0 THEN Raise("ZeroDivisionError")
    ELSE Return(Quot(ZipErrors(measured_bases, received_bases),
                     Len(measured_bases)))

ErrorRateTryNoGuard(measured_bases, received_bases) ==
    IF Len(measured_bases) = 0 THEN Raise("ZeroDivisionError")
    ELSE Return(Quot(ZipErrors(measured_bases, received_bases),
                     Len(measured_bases)))

\* The try block of calculate_error_rate: len() raises on an argument without
\* a length, the division raises on length 0.
ErrorRateTry(measured_bases, received_bases) ==
    IF measured_bases = NoLength \/ received_bases = NoLength
    THEN Raise("TypeError")
    ELSE IF Len(measured_bases) # Len(received_bases) THEN Return(One)
    ELSE IF Len(measured_bases) = 0 THEN Raise("ZeroDivisionError")
    ELSE Return(Quot(ZipErrors(measured_bases, received_bases),
                     Len(measured_bases)))

\* EveDetector.calculate_error_rate: the except clause returns 1.0.
CalculateErrorRate(measured_bases, received_bases) ==
    LET r == ErrorRateTry(measured_bases, received_bases)
    IN IF r.raised THEN Return(One) ELSE r

\* Mutation of AppCalculateErrorRate: a fault counts as no error at all.
AppCalculateErrorRateZero(measured_bases, received_bases) ==
    LET r == ErrorRateTry(measured_bases, received_bases)
    IN IF r.raised THEN Return(<<0, 1>>) ELSE r

\* app.calculate_error_rate: the same body, written a second time in app.py.
AppCalculateErrorRate(measured_bases, received_bases) ==
    LET r == ErrorRateTry(measured_bases, received_bases)
    IN IF r.raised THEN Return(One) ELSE r

\* EveDetector.__init__
NewDetector(threshold) ==
    [error_threshold |-> threshold, measurement_history |-> <<>>,
     error_rates |-> <<>>]

PrependRecord(history, record) == <<record>> \o history

\* self.measurement_history.append({...})
AppendRecord(history, record) == Append(history, record)

\* self.error_rates.append(error_rate)
AppendRate(rates, rate) == Append(rates, rate)

ReachesThreshold(rate, threshold) == ~RateGT(threshold, rate)

\* error_rate > self.error_threshold
ExceedsThreshold(rate, threshold) == RateGT(rate, threshold)

\* EveDetector.detect_eve on the detector self: the detector afterwards and
\* what the call hands back.  calculate_error_rate raises nothing, so neither
\* does the try block; the except clause re-raises.
DetectEveMethod(self, measured_bases, received_bases) ==
    LET r == CalculateErrorRate(measured_bases, received_bases)
    IN IF r.raised
       THEN [self |-> self, outcome |-> r]
       ELSE [self |->
               [error_threshold |-> self.error_threshold,
                measurement_history |->
                    AppendRecord(self.measurement_history,
                                 [measured |-> measured_bases,
                                  received |-> received_bases,
                                  error_rate |-> r.value]),
                error_rates |-> AppendRate(self.error_rates, r.value)],
             outcome |->
               Return(<<ExceedsThreshold(r.value, self.error_threshold),
                        r.value>>)]

\* eve_detection.detect_eve: a fresh detector per call; on an exception it
\* returns (True, 1.0).
DetectEve(measured_bases, received_bases, threshold) ==
    LET d == DetectEveMethod(NewDetector(threshold), measured_bases,
                             received_bases)
    IN IF d.outcome.raised THEN Return(<<TRUE, One>>) ELSE d.outcome

\* Mutation of AppDetectEve: a rate equal to 0.25 is flagged too.
AppDetectEveFromQuarter(measured_bases, received_bases) ==
    LET r == AppCalculateErrorRate(measured_bases, received_bases)
    IN IF r.raised THEN Return(TRUE) ELSE Return(~RateGT(<<1, 4>>, r.value))

\* app.detect_eve: the rate of app.calculate_error_rate against 0.25; the
\* except clause returns True.
AppDetectEve(measured_bases, received_bases) ==
    LET r == AppCalculateErrorRate(measured_bases, received_bases)
    IN IF r.raised THEN Return(TRUE) ELSE Return(RateGT(r.value, <<1, 4>>))

\* Mutation of ValidateSingleMeasurement: the error rate is not looked at.
ValidateSingleMeasurementAnyRate(measurement) ==
    IF ~({"measured", "received", "error_rate"} \subseteq DOMAIN measurement)
    THEN FALSE
    ELSE IF Len(measurement.measured) # Len(measurement.received)
    THEN FALSE
    ELSE TRUE

\* EveDetector._validate_single_measurement on a record.
ValidateSingleMeasurement(measurement) ==
    IF ~({"measured", "received", "error_rate"} \subseteq DOMAIN measurement)
    THEN FALSE
    ELSE IF ~(~RateGT(<<0, 1>>, measurement.error_rate)
              /\ ~RateGT(measurement.error_rate, One))
    THEN FALSE
    ELSE IF Len(measurement.measured) # Len(measurement.received)
    THEN FALSE
    ELSE TRUE

\* Mutation of ValidateMeasurements: one valid record is enough.
ValidateMeasurementsAny(measurements) ==
    IF measurements = <<>> THEN FALSE
    ELSE \E i \in 1..Len(measurements) :
            ValidateSingleMeasurement(measurements[i])

\* EveDetector.validate_measurements
ValidateMeasurements(measurements) ==
    IF measurements = <<>> THEN FALSE
    ELSE \A i \in 1..Len(measurements) :
            ValidateSingleMeasurement(measurements[i])

\* The detector instance of the state, as the object the methods act on.
Self ==
    [error_threshold |-> error_threshold,
     measurement_history |-> measurement_history,
     error_rates |-> error_rates]

(* Calls of the module-level functions: each is a call and its return. *)

InitCalls ==
    /\ BB84Idle
    /\ CallsIdle
    /\ AppIdle
    /\ error_threshold = <<1, 10>>
    /\ measurement_history = <<>>
    /\ error_rates = <<>>

CallAppCalculateErrorRate ==
    /\ phase = "idle"
    /\ \E a \in Strings(MaxLen), b \in Strings(MaxLen) :
         /\ call' = [fn |-> "app.calculate_error_rate", a |-> a, b |-> b]
         /\ ret' = AppCalculateErrorRate(a, b)
    /\ phase' = "returned"
    /\ UNCHANGED <<bb84vars, detvars, appvars>>

\* eve_detection.calculate_error_rate: EveDetector().calculate_error_rate
CallCalculateErrorRate ==
    /\ phase = "idle"
    /\ \E a \in Strings(MaxLen), b \in Strings(MaxLen) :
         /\ call' = [fn |-> "calculate_error_rate", a |-> a, b |-> b]
         /\ ret' = CalculateErrorRate(a, b)
    /\ phase' = "returned"
    /\ UNCHANGED <<bb84vars, detvars, appvars>>

CallDetectEve ==
    /\ phase = "idle"
    /\ \E a \in Strings(MaxLen), b \in Strings(MaxLen), t \in Thresholds :
         /\ call' = [fn |-> "detect_eve", a |-> a, b |-> b, threshold |-> t]
         /\ ret' = DetectEve(a, b, t)
    /\ phase' = "returned"
    /\ UNCHANGED <<bb84vars, detvars, appvars>>

\* The caller has taken the result; the next call can be made.
CallerContinues ==
    /\ phase = "returned"
    /\ phase' = "idle"
    /\ call' = [fn |-> "none"]
    /\ ret' = [raised |-> FALSE, value |-> "none"]
    /\ UNCHANGED <<bb84vars, detvars, appvars>>

NextCalls ==
    \/ CallAppCalculateErrorRate
    \/ CallCalculateErrorRate
    \/ CallDetectEve
    \/ CallerContinues

SpecCalls == InitCalls /\ [][NextCalls]_vars

(* One EveDetector instance and the methods called on it. *)

InitDetector ==
    /\ BB84Idle
    /\ CallsIdle
    /\ AppIdle
    /\ \E t \in InstanceThresholds : error_threshold = t
    /\ measurement_history = <<>>
    /\ error_rates = <<>>

MethodDetectEve ==
    /\ phase = "idle"
    /\ Len(measurement_history) < MaxCalls
    /\ \E a \in Strings(MaxRecLen), b \in Strings(MaxRecLen) :
         LET d == DetectEveMethod(Self, a, b)
         IN /\ call' = [fn |-> "EveDetector.detect_eve", a |-> a, b |-> b]
            /\ ret' = d.outcome
            /\ error_threshold' = d.self.error_threshold
            /\ measurement_history' = d.self.measurement_history
            /\ error_rates' = d.self.error_rates
    /\ phase' = "returned"
    /\ UNCHANGED <<bb84vars, appvars>>

\* The arguments of this call are not kept in the state: the method reads
\* nothing of the detector and writes nothing to it.  The call returns what
\* calculate_error_rate returns for some pair of arguments.
MethodCalculateErrorRate ==
    /\ phase = "idle"
    /\ \E r \in {CalculateErrorRate(a, b) :
                    a \in Strings(MaxRecLen), b \in Strings(MaxRecLen)} :
         ret' = r
    /\ call' = [fn |-> "EveDetector.calculate_error_rate"]
    /\ phase' = "returned"
    /\ UNCHANGED <<bb84vars, detvars, appvars>>

\* detector.validate_measurements(detector.measurement_history)
MethodValidateMeasurements ==
    /\ phase = "idle"
    /\ call' = [fn |-> "EveDetector.validate_measurements"]
    /\ ret' = Return(ValidateMeasurements(measurement_history))
    /\ phase' = "returned"
    /\ UNCHANGED <<bb84vars, detvars, appvars>>

NextDetector ==
    \/ MethodDetectEve
    \/ MethodCalculateErrorRate
    \/ MethodValidateMeasurements
    \/ CallerContinues

SpecDetector == InitDetector /\ [][NextDetector]_vars

(* validate_measurements, called with lists of records of any kind. *)

\* Longest list of records handed to validate_measurements.
MaxRecords == 2

\* The error_rate values of a record: below 0, 0, between, 1 and above 1.
RecordRates == {<<-1, 2>>, <<0, 1>>, <<1, 2>>, <<1, 1>>, <<3, 2>>}

\* Records with all three fields.
FullRecords ==
    [measured : Strings(1), received : Strings(1), error_rate : RecordRates]

\* Records that lack one field, or all of them.
PartialRecords ==
    {[measured |-> <<0>>, received |-> <<0>>],
     [measured |-> <<0>>, error_rate |-> <<0, 1>>],
     [received |-> <<0>>, error_rate |-> <<0, 1>>],
     <<>>}

Records == FullRecords \cup PartialRecords

RecordLists == UNION {[1..n -> Records] : n \in 0..MaxRecords}

\* eve_detection.validate_measurements: EveDetector().validate_measurements
CallValidateMeasurements ==
    /\ phase = "idle"
    /\ \E measurements \in RecordLists :
         /\ call' = [fn |-> "validate_measurements",
                     measurements |-> measurements]
         /\ ret' = Return(ValidateMeasurements(measurements))
    /\ phase' = "returned"
    /\ UNCHANGED <<bb84vars, detvars, appvars>>

NextValidate ==
    \/ CallValidateMeasurements
    \/ CallerContinues

SpecValidate == InitCalls /\ [][NextValidate]_vars

(* The three detect_eve entry points, called with arguments of any kind. *)

\* The arguments of a call: a string, or something without a length.
Arguments == Strings(MaxLen) \cup {NoLength}

EntryAppDetectEve ==
    /\ phase = "idle"
    /\ \E a \in Arguments, b \in Arguments :
         /\ call' = [fn |-> "app.detect_eve", a |-> a, b |-> b,
                     threshold |-> <<1, 4>>]
         /\ ret' = AppDetectEve(a, b)
    /\ phase' = "returned"
    /\ UNCHANGED <<bb84vars, detvars, appvars>>

EntryDetectEve ==
    /\ phase = "idle"
    /\ \E a \in Arguments, b \in Arguments, t \in Thresholds :
         /\ call' = [fn |-> "detect_eve", a |-> a, b |-> b, threshold |-> t]
         /\ ret' = DetectEve(a, b, t)
    /\ phase' = "returned"
    /\ UNCHANGED <<bb84vars, detvars, appvars>>

\* EveDetector(t).detect_eve(a, b) on a detector the caller has just built.
EntryMethodDetectEve ==
    /\ phase = "idle"
    /\ \E a \in Arguments, b \in Arguments, t \in Thresholds :
         /\ call' = [fn |-> "EveDetector.detect_eve", a |-> a, b |-> b,
                     threshold |-> t]
         /\ ret' = DetectEveMethod(NewDetector(t), a, b).outcome
    /\ phase' = "returned"
    /\ UNCHANGED <<bb84vars, detvars, appvars>>

NextEntry ==
    \/ EntryAppDetectEve
    \/ EntryDetectEve
    \/ EntryMethodDetectEve
    \/ CallerContinues

SpecEntry == InitCalls /\ [][NextEntry]_vars

(* The detector functions of app.py and those of eve_detection.py, called *)
(* one after the other with the same arguments.                            *)

\* eve_detection.calculate_error_rate with the arguments app's function has
\* just been called with.
SameCalculateErrorRate ==
    /\ phase = "returned"
    /\ call.fn = "app.calculate_error_rate"
    /\ call' = [fn |-> "calculate_error_rate", a |-> call.a, b |-> call.b,
                app_returned |-> ret]
    /\ ret' = CalculateErrorRate(call.a, call.b)
    /\ UNCHANGED <<phase, bb84vars, detvars, appvars>>

\* eve_detection.detect_eve(a, b, threshold=0.25) with the arguments
\* app.detect_eve has just been called with.
SameDetectEve ==
    /\ phase = "returned"
    /\ call.fn = "app.detect_eve"
    /\ call' = [fn |-> "detect_eve", a |-> call.a, b |-> call.b,
                threshold |-> <<1, 4>>, app_returned |-> ret]
    /\ ret' = DetectEve(call.a, call.b, <<1, 4>>)
    /\ UNCHANGED <<phase, bb84vars, detvars, appvars>>

NextDuplicates ==
    \/ CallAppCalculateErrorRate
    \/ SameCalculateErrorRate
    \/ EntryAppDetectEve
    \/ SameDetectEve
    \/ CallerContinues

SpecDuplicates == InitCalls /\ [][NextDuplicates]_vars

-----------------------------------------------------------------------------
(* quantum/eve_detection.py: analyze_quantum_state and _check_anomalies.   *)
(*                                                                         *)
(* The analyzer subtracts floats and compares the difference with the      *)
(* literal 0.1, so here a float is modelled as the IEEE 754 binary64 value *)
(* it is: a value in [0, 2) written as Width binary digits, digit 1        *)
(* weighing 2^0 and digit i weighing 2^-(i-1), of which at most Precision  *)
(* consecutive digits starting at the leading 1 are significant.  Every    *)
(* operation rounds to nearest, ties to even, as Python's does.            *)

\* Significant binary digits of a Python float.
Precision == 53

\* Digits are produced and subtracted a chunk at a time.
ChunkBits == 13

Chunks == 5

Radix == 2 ^ ChunkBits

\* Binary digits written out for a value: digit 1 and Chunks chunks; enough
\* for every float at or above 2^-12 and for the exact difference of two
\* of them.
Width == 1 + Chunks * ChunkBits

Digits == 1..Width

\* The ChunkBits binary digits of v, 0 <= v < Radix.
ChunkDigits(v) == [i \in 1..ChunkBits |-> (v \div 2 ^ (ChunkBits - i)) % 2]

\* The number whose binary digits are x[from], ..., x[from + n - 1].
RECURSIVE ValueOf(_, _, _)
ValueOf(x, from, n) ==
    IF n = 0 THEN 0 ELSE 2 * ValueOf(x, from, n - 1) + x[from + n - 1]

\* Digit 1 of x as limb 0, chunk c of x as limb c.
Limbs(x) ==
    [c \in 0..Chunks |->
       IF c = 0 THEN x[1] ELSE ValueOf(x, 2 + ChunkBits * (c - 1), ChunkBits)]

\* n more chunks of a quotient by q whose remainder so far is r.
RECURSIVE MoreDigits(_, _, _)
MoreDigits(r, q, n) ==
    IF n = 0 THEN <<>>
    ELSE ChunkDigits((Radix * r) \div q)
           \o MoreDigits((Radix * r) % q, q, n - 1)

\* The remainder n chunks further on.
RECURSIVE RemainderAfter(_, _, _)
RemainderAfter(r, q, n) ==
    IF n = 0 THEN r ELSE RemainderAfter((Radix * r) % q, q, n - 1)

\* The first Width digits of p / q (0 <= p <= q, 0 < q), and whether
\* something of the quotient is left beyond them.
ExactQuotient(p, q) ==
    [digits |-> <<p \div q>> \o MoreDigits(p % q, q, Chunks),
     inexact |-> RemainderAfter(p % q, q, Chunks) # 0]

\* Position of the leading 1, or 0 for the value zero.
Leading(digits) ==
    IF \E i \in Digits : digits[i] = 1
    THEN CHOOSE i \in Digits :
             digits[i] = 1 /\ \A j \in 1..(i - 1) : digits[j] = 0
    ELSE 0

\* The next value up that ends at position last.
Successor(digits, last) ==
    LET j == CHOOSE n \in 1..last :
                 digits[n] = 0 /\ \A m \in (n + 1)..last : digits[m] = 1
    IN [i \in Digits |-> IF i < j THEN digits[i] ELSE IF i = j THEN 1 ELSE 0]

\* Round to nearest float, ties to even.
RoundToFloat(x) ==
    LET lead == Leading(x.digits)
        last == lead + Precision - 1
    IN IF lead = 0 \/ last >= Width
       THEN x.digits
       ELSE LET guard == x.digits[last + 1]
                sticky == x.inexact
                            \/ \E i \in (last + 2)..Width : x.digits[i] = 1
                kept == [i \in Digits |-> IF i <= last THEN x.digits[i] ELSE 0]
            IN IF guard = 1 /\ (sticky \/ x.digits[last] = 1)
               THEN Successor(kept, last)
               ELSE kept

\* The float p / q of two ints.
FloatDiv(p, q) == RoundToFloat(ExactQuotient(p, q))

\* Float comparison x > y.
FloatGT(x, y) ==
    \E i \in Digits : /\ x[i] = 1
                      /\ y[i] = 0
                      /\ \A j \in 1..(i - 1) : x[j] = y[j]

\* Digit 1 and chunks 1..c of a - b, limb by limb, given what is borrowed
\* from limb c.
RECURSIVE DifferenceUpTo(_, _, _, _)
DifferenceUpTo(a, b, c, borrow) ==
    IF c = 0 THEN <<a[0] - b[0] - borrow>>
    ELSE IF a[c] - b[c] - borrow < 0
    THEN DifferenceUpTo(a, b, c - 1, 1)
           \o ChunkDigits(a[c] - b[c] - borrow + Radix)
    ELSE DifferenceUpTo(a, b, c - 1, 0) \o ChunkDigits(a[c] - b[c] - borrow)

\* x - y for x >= y, exact.
ExactDifference(x, y) == DifferenceUpTo(Limbs(x), Limbs(y), Chunks, 0)

\* The float x - y, as sign and magnitude.
FloatSub(x, y) ==
    IF FloatGT(y, x)
    THEN [negative |-> TRUE,
          digits |-> RoundToFloat([digits |-> ExactDifference(y, x),
                                   inexact |-> FALSE])]
    ELSE [negative |-> FALSE,
          digits |-> RoundToFloat([digits |-> ExactDifference(x, y),
                                   inexact |-> FALSE])]

\* abs(d)
FloatAbs(d) == d.digits

\* tolerance = 0.1: the float nearest to 1/10.
Tolerance == FloatDiv(1, 10)

\* The labels of get_counts, in the order the dict is iterated.
LabelOrder == <<"00", "01", "11">>

Labels == {LabelOrder[i] : i \in DOMAIN LabelOrder}

\* The counts a label can have.
CountValues == {8, 9, 13, 400, 480, 520, 600}

\* Outcome counts: a dict from some of the labels to counts.
CountsDicts == UNION {[D -> CountValues] : D \in SUBSET Labels}

\* The keys D of a dict, in iteration order.
InOrder(D) == SelectSeq(LabelOrder, LAMBDA l : l \in D)

\* sum(counts.values())
RECURSIVE SumValues(_, _)
SumValues(counts, D) ==
    IF D = {} THEN 0
    ELSE LET l == CHOOSE x \in D : TRUE
         IN counts[l] + SumValues(counts, D \ {l})

\* {k: v/total_shots for k, v in counts.items()}; dividing by a zero total
\* raises.
DistributionTry(counts, total_shots) ==
    IF DOMAIN counts = {} THEN Return(counts)
    ELSE IF total_shots = 0 THEN Raise("ZeroDivisionError")
    ELSE Return([l \in DOMAIN counts |-> FloatDiv(counts[l], total_shots)])

AnomalyMessage(state) ==
    [text |-> "Non-uniform distribution in state", state |-> state]

\* abs(prob - expected_prob) > tolerance
AnomalousState(distribution, expected_prob, state) ==
    FloatGT(FloatAbs(FloatSub(distribution[state], expected_prob)),
            Tolerance)

\* The try block of _check_anomalies.
CheckAnomaliesTry(distribution) ==
    IF DOMAIN distribution = {}
    THEN Raise("ZeroDivisionError")
    ELSE LET expected_prob == FloatDiv(1, Cardinality(DOMAIN distribution))
             states == SelectSeq(InOrder(DOMAIN distribution),
                           LAMBDA s : AnomalousState(distribution,
                                                     expected_prob, s))
         IN Return([i \in DOMAIN states |-> AnomalyMessage(states[i])])

\* EveDetector._check_anomalies: a fault is logged and [] returned.
CheckAnomalies(distribution) ==
    LET r == CheckAnomaliesTry(distribution)
    IN IF r.raised THEN <<>> ELSE r.value

\* What executing the circuit on the backend and reading its counts gives:
\* the counts, or an exception.
Executions == {Raise("QiskitError")} \cup {Return(c) : c \in CountsDicts}

\* EveDetector.analyze_quantum_state: every exception is logged and raised
\* again.
AnalyzeQuantumStateMethod(execution) ==
    IF execution.raised THEN execution
    ELSE LET counts == execution.value
             total_shots == SumValues(counts, DOMAIN counts)
             distribution == DistributionTry(counts, total_shots)
         IN IF distribution.raised THEN distribution
            ELSE Return([distribution |-> distribution.value,
                         anomalies |-> CheckAnomalies(distribution.value),
                         total_shots |-> total_shots])

\* The dict {}.
EmptyDict == <<>>

\* eve_detection.analyze_quantum_state: a fault is logged and {} returned.
AnalyzeQuantumState(execution) ==
    LET r == AnalyzeQuantumStateMethod(execution)
    IN IF r.raised THEN Return(EmptyDict) ELSE r

CallAnalyzeQuantumState ==
    /\ phase = "idle"
    /\ \E execution \in Executions :
         /\ call' = [fn |-> "analyze_quantum_state", execution |-> execution]
         /\ ret' = AnalyzeQuantumState(execution)
    /\ phase' = "returned"
    /\ UNCHANGED <<bb84vars, detvars, appvars>>

MethodAnalyzeQuantumState ==
    /\ phase = "idle"
    /\ \E execution \in Executions :
         /\ call' = [fn |-> "EveDetector.analyze_quantum_state",
                     execution |-> execution]
         /\ ret' = AnalyzeQuantumStateMethod(execution)
    /\ phase' = "returned"
    /\ UNCHANGED <<bb84vars, detvars, appvars>>

\* detector._check_anomalies(distribution) on the distribution of some counts.
MethodCheckAnomalies ==
    /\ phase = "idle"
    /\ \E counts \in CountsDicts :
         LET total_shots == SumValues(counts, DOMAIN counts)
         IN /\ call' = [fn |-> "EveDetector._check_anomalies",
                        execution |-> Return(counts)]
            /\ ret' = Return(CheckAnomalies(
                                DistributionTry(counts, total_shots).value))
    /\ phase' = "returned"
    /\ UNCHANGED <<bb84vars, detvars, appvars>>

NextAnalyzer ==
    \/ CallAnalyzeQuantumState
    \/ MethodAnalyzeQuantumState
    \/ MethodCheckAnomalies
    \/ CallerContinues

SpecAnalyzer == InitCalls /\ [][NextAnalyzer]_vars

-----------------------------------------------------------------------------
(* ui/app.py: generate_key, encrypt_message, decrypt_message and            *)
(* exchange_key.                                                           *)
(*                                                                         *)
(* A bytes object is a sequence of byte values, and a str of ASCII text is *)
(* modelled by the sequence of its character codes, which is what encode() *)
(* and decode() turn it into and back from.  A base64 text is the sequence *)
(* of the 6-bit values of its characters, Pad standing for "=".  Fernet is *)
(* library code: it is modelled as an authenticated cipher whose token     *)
(* opens under the key that made it and under no other.                    *)

\* The "=" that fills the last group of a base64 text.
Pad == 64

\* base64.b64encode and base64.urlsafe_b64encode: three bytes to four
\* characters; the two differ in the characters written for 62 and 63 only.
RECURSIVE B64Encode(_)
B64Encode(bytes) ==
    IF Len(bytes) = 0 THEN <<>>
    ELSE IF Len(bytes) = 1
    THEN <<bytes[1] \div 4, (bytes[1] % 4) * 16, Pad, Pad>>
    ELSE IF Len(bytes) = 2
    THEN <<bytes[1] \div 4, (bytes[1] % 4) * 16 + bytes[2] \div 16,
           (bytes[2] % 16) * 4, Pad>>
    ELSE <<bytes[1] \div 4, (bytes[1] % 4) * 16 + bytes[2] \div 16,
           (bytes[2] % 16) * 4 + bytes[3] \div 64, bytes[3] % 64>>
           \o B64Encode(SubSeq(bytes, 4, Len(bytes)))

\* base64.b64decode and base64.urlsafe_b64decode of a padded text: four
\* characters to three bytes, fewer where the group ends in Pad.
RECURSIVE B64Decode(_)
B64Decode(text) ==
    IF Len(text) < 4 THEN <<>>
    ELSE LET first == text[1] * 4 + text[2] \div 16
             second == (text[2] % 16) * 16 + text[3] \div 4
             third == (text[3] % 4) * 64 + text[4]
             group == IF text[3] = Pad THEN <<first>>
                      ELSE IF text[4] = Pad THEN <<first, second>>
                      ELSE <<first, second, third>>
         IN group \o B64Decode(SubSeq(text, 5, Len(text)))

\* Fernet(key): the key is base64 text of 32 bytes.
Fernet(key) ==
    IF Len(B64Decode(key)) # 32 THEN Raise("ValueError")
    ELSE Return(B64Decode(key))

\* Fernet.encrypt: a token that carries the data under the key.
FernetEncrypt(fernet, data) == fernet \o data

\* Fernet.decrypt: the data of a token made under this key; InvalidToken
\* for every other token.
FernetDecrypt(fernet, token) ==
    IF Len(token) >= Len(fernet) /\ SubSeq(token, 1, Len(fernet)) = fernet
    THEN Return(SubSeq(token, Len(fernet) + 1, Len(token)))
    ELSE Raise("InvalidToken")

\* ''.join(str(bit) for bit in shared_bits): "0" is 48 and "1" is 49.
KeyStr(shared_bits) == [i \in 1..Len(shared_bits) |-> 48 + shared_bits[i]]

\* bytes.ljust(width): filled up with spaces (32) on the right.
LJust(bytes, width) ==
    IF Len(bytes) >= width THEN bytes
    ELSE bytes \o [i \in 1..(width - Len(bytes)) |-> 32]

\* Mutation of GenerateKey: the key string is cut after 31 characters and
\* filled with a space.
GenerateKeyCutShort(shared_bits) ==
    Fernet(B64Encode(SubSeq(LJust(KeyStr(shared_bits), 32), 1, 31)
                     \o <<32>>))

\* app.generate_key
GenerateKey(shared_bits) ==
    Fernet(B64Encode(SubSeq(LJust(KeyStr(shared_bits), 32), 1, 32)))

\* app.encrypt_message: None has no encode().
AppEncryptMessage(message, key) ==
    IF message = None THEN Raise("AttributeError")
    ELSE Return(FernetEncrypt(key, message))

\* app.decrypt_message
AppDecryptMessage(encrypted_message, key) ==
    FernetDecrypt(key, encrypted_message)

\* The messages of a request: none, "" and "hi".
Messages == {None, <<>>, <<104, 105>>}

\* exchange_key once bb84_protocol has returned (key_a, key_b, third): the
\* third value is bound to the name error_rate.
ExchangeKey(message, key_a, key_b, third) ==
    LET encrypted == AppEncryptMessage(message, GenerateKey(key_a).value)
        detected == AppDetectEve(key_a, key_b).value
    IN IF encrypted.raised
       THEN [sent |-> TRUE, success |-> FALSE, error |-> encrypted.value]
       ELSE [sent |-> TRUE,
             success |-> ~detected,
             key |-> KeyStr(key_a),
             encrypted |-> encrypted.value,
             error_rate |-> third]

\* A POST to /exchange_key: the request is read and bb84_protocol called.
\* The code calls it with num_bits = 10; the run is modelled with 1..MaxBits
\* qubits.
ExchangeKeyCallsBB84 ==
    /\ pc = "start"
    /\ ~request.pending
    /\ \E message \in Messages, eve_enabled \in BOOLEAN, n \in 1..MaxBits :
         /\ request' = [pending |-> TRUE, message |-> message,
                        eve_enabled |-> eve_enabled]
         /\ num_bits' = n
         /\ eve_present' = eve_enabled
         /\ \E bits \in BitSeqs(n), bases \in BitSeqs(n) :
              /\ alice_bits' = bits
              /\ alice_bases' = bases
              /\ qubits' = [i \in 1..n |-> <<bits[i], bases[i]>>]
    /\ pc' = "eve"
    /\ UNCHANGED <<callvars, detvars, response, reqvars, eve_bases,
                   bob_bases, bob_bits, key_alice, key_bob, test_bits, error_rate,
                   eve_detected>>

\* bb84_protocol has returned; the rest of exchange_key runs and the
\* response is handed over.
ExchangeKeyResponds ==
    /\ pc = "done"
    /\ request.pending
    /\ response' = ExchangeKey(request.message, key_alice, key_bob,
                               eve_detected)
    /\ pc' = "responded"
    /\ UNCHANGED <<callvars, detvars, request, reqvars, num_bits, eve_present,
                   alice_bits, alice_bases, qubits, eve_bases, bob_bases,
                   bob_bits, key_alice, key_bob, test_bits, error_rate,
                   eve_detected>>

\* bb84_protocol called on its own, or by exchange_key.
NextExchange ==
    \/ NextBB84
    \/ ExchangeKeyCallsBB84
    \/ ExchangeKeyResponds

SpecExchange == InitBB84 /\ [][NextExchange]_vars

(* Two requests served at the same time, each by handle_message or by      *)
(* exchange_key, on two threads of the server.  handle_message is cut      *)
(* where it goes back to quantum_state after having written to it: before *)
(* the decryption, before sio.emit and before the return; the other        *)
(* request can run at each cut.                                            *)

\* The keys generate_quantum_key can hand out.
QuantumKeys == {GenerateKey(<<0>>).value, GenerateKey(<<1>>).value}

\* generate_quantum_key(), called at app.py:317.  No file of src defines
\* it: as src stands the call raises NameError.  Where the function is
\* there, it generates a quantum key using BB84 (module docstring of
\* app.py), which encrypt_message and decrypt_message then use as a cipher
\* key.
GenerateQuantumKey ==
    {Raise("NameError")} \cup {Return(key) : key \in QuantumKeys}

\* ''.join('1' if c == '0' else '0' for c in encrypted_message)
Interfere(encrypted_message) ==
    [i \in 1..Len(encrypted_message) |->
       IF encrypted_message[i] = 48 THEN 49 ELSE 48]

\* quantum_state with quantum_state['quantum_key'] = key
WithQuantumKey(state, key) ==
    [field \in DOMAIN state \cup {"quantum_key"} |->
       IF field = "quantum_key" THEN key ELSE state[field]]

\* handle_message up to the end of the interference block: an empty
\* message is refused, the key is generated if the dict has none, the
\* message is encrypted and Eve interferes, or not; eve_detected is
\* written.  computed keeps what this request has computed itself.
MessageBegins(r) ==
    /\ requests[r].pc = "start"
    /\ \E message \in {<<>>, <<104, 105>>}, eve_enabled \in BOOLEAN,
          interferes \in BOOLEAN, generated \in GenerateQuantumKey :
         LET cached == "quantum_key" \in DOMAIN quantum_state
             key == IF cached THEN quantum_state.quantum_key
                    ELSE generated.value
             detected == eve_enabled /\ interferes
             encrypted == AppEncryptMessage(message, key).value
         IN IF message = <<>>
            THEN /\ requests' = [requests EXCEPT ![r] =
                       [pc |-> "done", handler |-> "handle_message",
                        returned |-> [error |-> "Missing message or sender",
                                      status |-> 400]]]
                 /\ UNCHANGED quantum_state
            ELSE IF ~cached /\ generated.raised
            THEN /\ requests' = [requests EXCEPT ![r] =
                       [pc |-> "failed", handler |-> "handle_message",
                        error |-> generated.value]]
                 /\ UNCHANGED quantum_state
            ELSE /\ quantum_state' =
                       [WithQuantumKey(quantum_state, key)
                          EXCEPT !.eve_detected = detected]
                 /\ requests' = [requests EXCEPT ![r] =
                       [pc |-> "decrypt", handler |-> "handle_message",
                        message |-> message,
                        encrypted_message |->
                            IF detected THEN Interfere(encrypted)
                            ELSE encrypted,
                        computed |-> [key |-> IF cached THEN None ELSE key,
                                      eve_detected |-> detected]]]
    /\ UNCHANGED <<bb84vars, callvars, detvars, request, response,
                   chat_history, emitted>>

\* The message is decrypted, the error rate calculated and the entry added
\* to the chat history of the sender.
MessageStores(r) ==
    /\ requests[r].pc = "decrypt"
    /\ LET decrypted == AppDecryptMessage(requests[r].encrypted_message,
                                          quantum_state.quantum_key)
           rate == AppCalculateErrorRate(
                             NoLength, requests[r].encrypted_message).value
       IN IF decrypted.raised
          THEN /\ requests' = [requests EXCEPT ![r] =
                     [pc |-> "failed", handler |-> "handle_message",
                      error |-> decrypted.value,
                      computed |-> requests[r].computed]]
               /\ UNCHANGED chat_history
          ELSE /\ chat_history' = [chat_history EXCEPT ![Senders[r]] =
                     Append(@, [sender |-> Senders[r],
                                message |-> requests[r].message,
                                encrypted |-> requests[r].encrypted_message,
                                decrypted |-> decrypted.value,
                                key |-> quantum_state.quantum_key,
                                error_rate |-> rate,
                                eve_detected |-> quantum_state.eve_detected])]
               /\ requests' = [requests EXCEPT ![r] =
                     [pc |-> "emit", handler |-> "handle_message",
                      message |-> requests[r].message,
                      encrypted_message |-> requests[r].encrypted_message,
                      decrypted_message |-> decrypted.value,
                      error_rate |-> rate,
                      computed |-> requests[r].computed]]
    /\ UNCHANGED <<bb84vars, callvars, detvars, request, response,
                   quantum_state, emitted>>

\* sio.emit('message', ...)
MessageEmits(r) ==
    /\ requests[r].pc = "emit"
    /\ emitted' = Append(emitted,
           [sender |-> Senders[r],
            message |-> requests[r].decrypted_message,
            encryption_details |->
                [key |-> quantum_state.quantum_key,
                 encrypted |-> requests[r].encrypted_message,
                 error_rate |-> requests[r].error_rate],
            eve_detected |-> quantum_state.eve_detected])
    /\ requests' = [requests EXCEPT ![r].pc = "return"]
    /\ UNCHANGED <<bb84vars, callvars, detvars, request, response,
                   quantum_state, chat_history>>

\* return jsonify(...)
MessageReturns(r) ==
    /\ requests[r].pc = "return"
    /\ requests' = [requests EXCEPT ![r] =
           [pc |-> "done", handler |-> "handle_message",
            computed |-> requests[r].computed,
            returned |-> [success |-> TRUE,
                          message |-> requests[r].decrypted_message,
                          encrypted |-> requests[r].encrypted_message,
                          key |-> quantum_state.quantum_key,
                          error_rate |-> requests[r].error_rate,
                          eve_detected |-> quantum_state.eve_detected]]]
    /\ UNCHANGED <<bb84vars, callvars, detvars, request, response,
                   quantum_state, chat_history, emitted>>

\* What bb84_protocol can return for keys of at most one bit: the keys and
\* the outcome of its test.
ProtocolResults(eve) ==
    {<<<<>>, <<>>, TRUE>>}
      \cup {<<keys[1], keys[2],
               RateGT(SampleRate(keys[1], keys[2], {1}), <<1, 4>>)>> :
              keys \in {pair \in BitSeqs(1) \X BitSeqs(1) :
                           eve \/ pair[1] = pair[2]}}

\* exchange_key, from the request to the response: it works on local names
\* only.
ExchangeKeyServes(r) ==
    /\ requests[r].pc = "start"
    /\ \E message \in Messages, eve_enabled \in BOOLEAN :
         \E result \in ProtocolResults(eve_enabled) :
            requests' = [requests EXCEPT ![r] =
                [pc |-> "done", handler |-> "exchange_key",
                 computed |-> [key |-> KeyStr(result[1]),
                               eve_detected |-> result[3]],
                 returned |-> ExchangeKey(message, result[1], result[2],
                                          result[3])]]
    /\ UNCHANGED <<bb84vars, callvars, detvars, request, response,
                   quantum_state, chat_history, emitted>>

NextRequests ==
    \/ \E r \in Requests : MessageBegins(r)
    \/ \E r \in Requests : MessageStores(r)
    \/ \E r \in Requests : MessageEmits(r)
    \/ \E r \in Requests : MessageReturns(r)
    \/ \E r \in Requests : ExchangeKeyServes(r)

SpecRequests == InitBB84 /\ [][NextRequests]_vars

-----------------------------------------------------------------------------
(* quantum/encryption.py: QuantumEncryption and its module-level wrappers, *)
(* and the cipher functions of ui/app.py, each as an encryption followed   *)
(* by a decryption of its result.                                          *)

\* Mutation of PadMessage: a message that fills its last block gets no
\* padding.
PadMessageToBlock(message) ==
    message \o [i \in 1..((16 - (Len(message) % 16)) % 16) |->
                  (16 - (Len(message) % 16)) % 16]

\* QuantumEncryption._pad_message
PadMessage(message) ==
    message \o [i \in 1..(16 - (Len(message) % 16)) |->
                  16 - (Len(message) % 16)]

\* QuantumEncryption._unpad_message: message[:-message[-1]]; the slice
\* [:-0] is empty, and so is [:-n] for n above the length.
UnpadMessage(message) ==
    IF Len(message) = 0 THEN Raise("IndexError")
    ELSE IF message[Len(message)] = 0
            \/ message[Len(message)] > Len(message)
    THEN Return(<<>>)
    ELSE Return(SubSeq(message, 1, Len(message) - message[Len(message)]))

\* QuantumEncryption.__init__ with a key that is not empty: the Fernet
\* instance, and iv_length = 16.
NewEncryption(key) ==
    IF Fernet(key).raised THEN Fernet(key)
    ELSE Return([key |-> key, fernet |-> Fernet(key).value,
                 iv_length |-> 16])

\* QuantumEncryption.encrypt, iv being what generate_iv() has drawn.
Encrypt(self, message, iv) ==
    IF message = None THEN Raise("AttributeError")
    ELSE Return(<<B64Encode(iv \o FernetEncrypt(self.fernet,
                                                 PadMessage(message))),
                  iv>>)

\* QuantumEncryption.decrypt
Decrypt(self, encrypted_message) ==
    LET message_bytes == B64Decode(encrypted_message)
        encrypted == SubSeq(message_bytes, self.iv_length + 1,
                            Len(message_bytes))
        decrypted == FernetDecrypt(self.fernet, encrypted)
    IN IF decrypted.raised THEN decrypted
       ELSE UnpadMessage(decrypted.value)

\* encryption.encrypt_message
EncryptMessage(message, key, iv) ==
    IF NewEncryption(key).raised THEN NewEncryption(key)
    ELSE LET r == Encrypt(NewEncryption(key).value, message, iv)
         IN IF r.raised THEN r ELSE Return(r.value[1])

\* encryption.decrypt_message
DecryptMessage(encrypted, key) ==
    IF NewEncryption(key).raised THEN NewEncryption(key)
    ELSE Decrypt(NewEncryption(key).value, encrypted)

\* Cipher keys: base64 text of 32 bytes.
EncryptionKeys == {B64Encode([i \in 1..32 |-> byte]) : byte \in {0, 7, 255}}

\* What os.urandom(16) can draw.
IVs == {[i \in 1..16 |-> byte] : byte \in {0, 255}}

\* Characters of the messages: two that look like padding bytes, and "A".
MessageChars == {1, 16, 65}

\* Lengths of the messages: around one block and two blocks.
MessageLengths == {0, 1, 2, 15, 16, 17, 32}

\* The messages: n - 1 times one character, then a last one.
CipherMessages ==
    {[i \in 1..n |-> IF i = n THEN last ELSE body] :
        n \in MessageLengths, body \in MessageChars, last \in MessageChars}

\* Longest sifted key a cipher key is derived from.
MaxKeyBits == 33

\* Sifted keys: zeros, then a last bit.
KeyBitSeqs ==
    {[i \in 1..n |-> IF i = n THEN last ELSE 0] :
        n \in 0..MaxKeyBits, last \in Bit}

CallEncryptMessage ==
    /\ phase = "idle"
    /\ \E message \in CipherMessages, key \in EncryptionKeys, iv \in IVs :
         /\ call' = [fn |-> "encrypt_message", message |-> message,
                     key |-> key]
         /\ ret' = EncryptMessage(message, key, iv)
    /\ phase' = "returned"
    /\ UNCHANGED <<bb84vars, detvars, appvars>>

\* decrypt_message on what encrypt_message has returned, with any key.
CallDecryptMessage ==
    /\ phase = "returned"
    /\ call.fn = "encrypt_message"
    /\ ~ret.raised
    /\ \E key \in EncryptionKeys :
         /\ call' = [fn |-> "decrypt_message", encrypted |-> ret.value,
                     key |-> key, encrypted_with |-> call.key,
                     message |-> call.message]
         /\ ret' = DecryptMessage(ret.value, key)
    /\ UNCHANGED <<phase, bb84vars, detvars, appvars>>

\* app.encrypt_message(message, generate_key(shared_bits))
CallAppEncryptMessage ==
    /\ phase = "idle"
    /\ \E message \in {<<>>, <<104, 105>>}, shared_bits \in KeyBitSeqs :
         /\ call' = [fn |-> "app.encrypt_message", message |-> message,
                     shared_bits |-> shared_bits]
         /\ ret' = AppEncryptMessage(message, GenerateKey(shared_bits).value)
    /\ phase' = "returned"
    /\ UNCHANGED <<bb84vars, detvars, appvars>>

\* app.decrypt_message on what app.encrypt_message has returned, with the
\* key generated from any sifted key.
CallAppDecryptMessage ==
    /\ phase = "returned"
    /\ call.fn = "app.encrypt_message"
    /\ ~ret.raised
    /\ \E shared_bits \in KeyBitSeqs :
         /\ call' = [fn |-> "app.decrypt_message", encrypted |-> ret.value,
                     shared_bits |-> shared_bits,
                     encrypted_with |-> call.shared_bits,
                     message |-> call.message]
         /\ ret' = AppDecryptMessage(ret.value,
                                     GenerateKey(shared_bits).value)
    /\ UNCHANGED <<phase, bb84vars, detvars, appvars>>

NextCipher ==
    \/ CallEncryptMessage
    \/ CallDecryptMessage
    \/ CallAppEncryptMessage
    \/ CallAppDecryptMessage
    \/ CallerContinues

SpecCipher == InitCalls /\ [][NextCipher]_vars

-----------------------------------------------------------------------------
(* Claims about bb84_protocol and measure_qubit, checked under SpecBB84. *)

Sifted == pc \in {"test", "done"}

Measured == pc \in {"sift", "test", "done"}

\* The indices at which Alice's and Bob's bases agree.
Agree == {i \in 1..num_bits : alice_bases[i] = bob_bases[i]}

\* The j-th agreeing index, in increasing order.
KthAgree(j) == CHOOSE i \in Agree : Cardinality({m \in Agree : m <= i}) = j

\* key is the subsequence of bits at the agreeing indices, in index order.
SubsequenceAtAgree(bits, key) ==
    /\ Len(key) = Cardinality(Agree)
    /\ \A j \in 1..Len(key) : key[j] = bits[KthAgree(j)]

\* C1: in a run with eve_present = False the returned key_alice and key_bob
\* are equal element by element, whatever num_bits and the random draws are.
C1_HonestKeysEqual == (Sifted /\ ~eve_present) => key_alice = key_bob

\* A finished honest run with a non-empty key in which one of Bob's
\* measurements in the wrong basis came out different from Alice's bit.
C1_Witness ==
    /\ pc = "done" /\ ~eve_present /\ Len(key_alice) >= 1
    /\ \E i \in 1..num_bits :
         alice_bases[i] # bob_bases[i] /\ alice_bits[i] # bob_bits[i]

C2_State ==
    Sifted => /\ SubsequenceAtAgree(alice_bits, key_alice)
              /\ SubsequenceAtAgree(bob_bits, key_bob)

\* C2: key_alice is the subsequence of Alice's original bits, and key_bob the
\* subsequence of Bob's measured bits, at the indices where the two bases
\* agree, in increasing index order, with or without Eve; once Alice has
\* drawn alice_bits and alice_bases no later step (Eve's re-emission
\* included) changes them.
C2_SiftIsSubsequence ==
    [][ /\ pc # "start" =>
             (alice_bits' = alice_bits /\ alice_bases' = alice_bases)
        /\ C2_State' ]_vars

\* A finished run with Eve whose sifted keys hold two different bits of Alice
\* and differ from each other.
C2_Witness ==
    /\ pc = "done" /\ eve_present /\ Len(key_alice) >= 2
    /\ key_alice[1] # key_alice[2]
    /\ key_alice # key_bob

\* C3: for num_bits >= 1, with or without Eve, the two sifted keys have the
\* same length and that length is at most num_bits.
C3_KeyLengths ==
    (Sifted /\ num_bits >= 1) =>
        (Len(key_alice) = Len(key_bob) /\ Len(key_alice) <= num_bits)

\* A finished run with Eve in which some bases agreed and some did not.
C3_Witness ==
    /\ pc = "done" /\ eve_present
    /\ Len(key_alice) >= 1 /\ Len(key_alice) < num_bits

\* The lists of results that agree with the measured qubit's bit wherever the
\* measuring basis is the qubit's basis.
ConsistentResults ==
    {m \in BitSeqs(num_bits) :
        \A i \in 1..num_bits : bob_bases[i] = qubits[i][2] => m[i] = qubits[i][1]}

\* C4: measure_qubit returns the qubit's bit when the measuring basis is the
\* qubit's basis; when the bases differ the result is in {0,1} and both
\* values can come out whatever the bit is (before Bob measures, exactly the
\* consistent lists of results are possible); the measured qubit is left as
\* it was (in an honest run it still is Alice's (bit, basis)).
C4_MeasureQubit ==
    /\ pc = "bob_measure" =>
         \A m \in BitSeqs(num_bits) :
            (ENABLED (BobMeasures /\ bob_bits' = m)) <=> (m \in ConsistentResults)
    /\ Measured =>
         /\ Len(bob_bits) = num_bits
         /\ \A i \in 1..num_bits :
              /\ bob_bits[i] \in Bit
              /\ bob_bases[i] = qubits[i][2] => bob_bits[i] = qubits[i][1]
    /\ (Measured /\ ~eve_present) =>
         \A i \in 1..num_bits : qubits[i] = <<alice_bits[i], alice_bases[i]>>

\* Bob has measured: one qubit in its own basis, and one in the other basis
\* with a result different from its bit.
C4_Witness ==
    /\ pc = "sift"
    /\ \E i, j \in 1..num_bits :
         /\ bob_bases[i] = qubits[i][2] /\ bob_bits[i] = qubits[i][1]
         /\ bob_bases[j] # qubits[j][2] /\ bob_bits[j] # qubits[j][1]

\* C5: with eve_present, after the interception every forwarded qubit i has
\* Eve's basis and the bit Eve measured on the original qubit i (Alice's bit
\* when Eve's basis is Alice's, some bit otherwise), and Bob measures the
\* forwarded qubits: in Eve's basis he reads Eve's bit.
C5_EveResends ==
    /\ (eve_present /\ pc \notin {"start", "eve"}) =>
         /\ Len(qubits) = num_bits
         /\ \A i \in 1..num_bits :
              /\ qubits[i][2] = eve_bases[i]
              /\ qubits[i][1] \in
                    MeasureQubit(<<alice_bits[i], alice_bases[i]>>, eve_bases[i])
    /\ (eve_present /\ Measured) =>
         \A i \in 1..num_bits :
            bob_bases[i] = eve_bases[i] => bob_bits[i] = qubits[i][1]

\* A finished run in which Eve used the wrong basis on a qubit, measured the
\* opposite of Alice's bit, and Bob, in Eve's basis, read Eve's bit.
C5_Witness ==
    /\ pc = "done" /\ eve_present
    /\ \E i \in 1..num_bits :
         /\ eve_bases[i] # alice_bases[i]
         /\ qubits[i][1] # alice_bits[i]
         /\ bob_bases[i] = eve_bases[i]
         /\ bob_bits[i] # alice_bits[i]

-----------------------------------------------------------------------------
(* Claims about calculate_error_rate and detect_eve, checked under         *)
(* SpecCalls, and about one EveDetector, checked under SpecDetector.       *)

\* A calculate_error_rate (of app.py or of eve_detection.py) has returned.
RateCallReturned ==
    /\ phase = "returned"
    /\ call.fn \in {"app.calculate_error_rate", "calculate_error_rate"}

\* eve_detection.detect_eve has returned.
DetectCallReturned == phase = "returned" /\ call.fn = "detect_eve"

\* The positions at which the two arguments of the call differ.
Differing == {i \in 1..Len(call.a) : call.a[i] # call.b[i]}

\* The value v is the float p / q.
IsQuotient(v, p, q) == v[2] > 0 /\ v[1] * q = p * v[2]

\* C6: for two sequences of equal non-zero length calculate_error_rate
\* returns (number of differing positions) / length; "0101" against "0111"
\* gives exactly 0.25, and detect_eve with threshold 0.1 flags that pair.
C6_ErrorRate ==
    /\ (RateCallReturned /\ Len(call.a) = Len(call.b) /\ Len(call.a) > 0) =>
         /\ ~ret.raised
         /\ IsQuotient(ret.value, Cardinality(Differing), Len(call.a))
    /\ (RateCallReturned /\ call.a = <<0, 1, 0, 1>> /\ call.b = <<0, 1, 1, 1>>)
         => ret = Return(<<1, 4>>)
    /\ (DetectCallReturned /\ call.a = <<0, 1, 0, 1>> /\ call.b = <<0, 1, 1, 1>>
          /\ call.threshold = <<1, 10>>)
         => ret = Return(<<TRUE, <<1, 4>>>>)

\* detect_eve("0101", "0111", threshold=0.1) has returned.
C6_Witness ==
    /\ DetectCallReturned
    /\ call.a = <<0, 1, 0, 1>> /\ call.b = <<0, 1, 1, 1>>
    /\ call.threshold = <<1, 10>>
    /\ ret.value[1]

\* C7: calculate_error_rate(s, s) returns 0.0 for every non-empty s.
C7_SameSequence ==
    (RateCallReturned /\ call.a = call.b /\ Len(call.a) > 0) =>
        ret = Return(<<0, 1>>)

\* app.calculate_error_rate("0110", "0110") has returned.
C7_Witness ==
    /\ RateCallReturned /\ call.fn = "app.calculate_error_rate"
    /\ call.a = <<0, 1, 1, 0>> /\ call.b = call.a

\* C8: calculate_error_rate(a, b) returns 1.0, without raising, whenever
\* len(a) != len(b), also when one of the two is empty.
C8_LengthMismatch ==
    (RateCallReturned /\ Len(call.a) # Len(call.b)) => ret = Return(One)

\* calculate_error_rate("", "00") has returned: zip finds no mismatch.
C8_Witness ==
    /\ RateCallReturned /\ call.fn = "calculate_error_rate"
    /\ call.a = <<>> /\ call.b = <<0, 0>>

\* C9: for every threshold t and every pair of inputs detect_eve returns
\* eve_detected = True exactly when the error rate it computed is strictly
\* greater than t; with t = 0.1 every rate above 0.1 is flagged, and
\* identical non-empty sequences have rate 0.0 and are not flagged at any
\* positive threshold.
C9_FlagIffAboveThreshold ==
    DetectCallReturned =>
        /\ ~ret.raised
        /\ ret.value[2] = CalculateErrorRate(call.a, call.b).value
        /\ ret.value[1] <=>
             (ret.value[2][1] * call.threshold[2]
                > call.threshold[1] * ret.value[2][2])
        /\ (call.threshold = <<1, 10>> /\ 10 * ret.value[2][1] > ret.value[2][2])
             => ret.value[1]
        /\ (call.a = call.b /\ Len(call.a) > 0 /\ call.threshold[1] > 0)
             => (ret.value[2] = <<0, 1>> /\ ~ret.value[1])

\* detect_eve("0101", "0111", threshold=0.25) has returned: the rate is the
\* threshold, and the pair is not flagged.
C9_Witness ==
    /\ DetectCallReturned
    /\ call.a = <<0, 1, 0, 1>> /\ call.b = <<0, 1, 1, 1>>
    /\ call.threshold = <<1, 4>>
    /\ ret = Return(<<FALSE, <<1, 4>>>>)

IsPrefix(s, t) == Len(s) <= Len(t) /\ \A i \in 1..Len(s) : s[i] = t[i]

\* error_rates lists the error_rate of the records, record by record.
RatesMatchHistory ==
    /\ Len(error_rates) = Len(measurement_history)
    /\ \A i \in 1..Len(error_rates) :
         error_rates[i] = measurement_history[i].error_rate

\* C10: on one EveDetector measurement_history is append-only: a detect_eve
\* call appends exactly one record (its two inputs and the error rate it
\* returns) at the end, every other operation leaves the history as it is,
\* no operation changes, removes or reorders an earlier record, and
\* error_rates keeps the length of the history with error_rates[i] the
\* error_rate of record i.
C10_HistoryAppendOnly ==
    [][ /\ IsPrefix(measurement_history, measurement_history')
        /\ IF phase = "idle" /\ call'.fn = "EveDetector.detect_eve"
           THEN measurement_history' =
                    Append(measurement_history,
                           [measured |-> call'.a, received |-> call'.b,
                            error_rate |-> ret'.value[2]])
           ELSE measurement_history' = measurement_history
        /\ RatesMatchHistory' ]_vars

\* Two detect_eve calls have recorded different rates, and a validation of
\* the history has returned after them.
C10_Witness ==
    /\ phase = "returned" /\ call.fn = "EveDetector.validate_measurements"
    /\ Len(measurement_history) = 2
    /\ measurement_history[1].error_rate # measurement_history[2].error_rate
    /\ Len(measurement_history[2].measured) # Len(measurement_history[2].received)

-----------------------------------------------------------------------------
(* Claims about faults of the detectors, checked under SpecEntry. *)

\* A detect_eve entry point has returned to its caller.
EntryReturned ==
    /\ phase = "returned"
    /\ call.fn \in {"app.detect_eve", "detect_eve", "EveDetector.detect_eve"}

\* The eve_detected the entry point reported: app.detect_eve returns the
\* flag, the other two return (flag, rate).
ReportedFlag == IF call.fn = "app.detect_eve" THEN ret.value ELSE ret.value[1]

\* The error-rate computation of the call faulted.
RateFaulted == ErrorRateTry(call.a, call.b).raised

\* C11: whenever the error-rate computation faults (two empty sequences, an
\* argument without a length) every detect_eve entry point, at every
\* threshold, reports eve_detected = True.
C11_FaultReportsEve ==
    (EntryReturned /\ RateFaulted) => (~ret.raised /\ ReportedFlag = TRUE)

-----------------------------------------------------------------------------
(* Claims about the analyzer, checked under SpecAnalyzer. *)

AnalyzerReturned ==
    /\ phase = "returned"
    /\ call.fn \in {"analyze_quantum_state",
                    "EveDetector.analyze_quantum_state",
                    "EveDetector._check_anomalies"}

\* The counts the call was about, when executing the circuit gave counts.
CallCounts == call.execution.value

CallTotal == SumValues(CallCounts, DOMAIN CallCounts)

\* The call met an exception: executing the circuit failed, or the
\* distribution or its anomalies could not be computed.
AnalysisFaulted ==
    \/ call.execution.raised
    \/ DistributionTry(CallCounts, CallTotal).raised
    \/ CheckAnomaliesTry(DistributionTry(CallCounts, CallTotal).value).raised

\* The anomalies the caller is handed: those of the result, none when the
\* result has no anomalies entry.
ReportedAnomalies ==
    IF call.fn = "EveDetector._check_anomalies" THEN ret.value
    ELSE IF "anomalies" \in DOMAIN ret.value THEN ret.value.anomalies
    ELSE <<>>

\* C12: a fault while the analyzer computes the anomalies of a distribution
\* (an empty distribution, a failing circuit execution) is never handed to
\* the caller as a result without anomalies: the call raises or reports an
\* anomaly.
C12_FaultReportsAnomaly ==
    (AnalyzerReturned /\ AnalysisFaulted)
        => (ret.raised \/ ReportedAnomalies # <<>>)

\* The analyzer has returned the analysis of counts over one or more labels.
CountsAnalyzed ==
    /\ AnalyzerReturned
    /\ ~call.execution.raised
    /\ DOMAIN CallCounts # {}
    /\ CallTotal > 0

\* |count/T - 1/k| > 0.1 in exact arithmetic: |count * k - T| / (T * k)
\* against 1/10.
Deviates(label) ==
    LET k == Cardinality(DOMAIN CallCounts)
        d == CallCounts[label] * k - CallTotal
    IN 10 * (IF d < 0 THEN 0 - d ELSE d) > CallTotal * k

DeviatingLabels == SelectSeq(InOrder(DOMAIN CallCounts), Deviates)

-----------------------------------------------------------------------------
(* Claims about exchange_key, checked under SpecExchange. *)

Responded == pc = "responded"

\* bb84_protocol has returned: to its caller, or to exchange_key.
BB84Returned == pc \in {"done", "responded"}

\* C13: a run whose sifted key is empty is never reported as a successful
\* exchange: bb84_protocol returns eve_detected = True, and the response of
\* exchange_key for such a run has success = False.
C13_EmptyKeyNotSuccess ==
    /\ (BB84Returned /\ key_alice = <<>>) => eve_detected = TRUE
    /\ (Responded /\ key_alice = <<>>) => response.success = FALSE

\* exchange_key has answered a run of one or more qubits whose sifted key
\* is empty, after encrypting the message.
C13_Witness ==
    /\ Responded
    /\ num_bits >= 1
    /\ key_alice = <<>>
    /\ "encrypted" \in DOMAIN response
    /\ response.success = FALSE

\* exchange_key has answered with a result, not with an error.
ResultHandedOver == Responded /\ "key" \in DOMAIN response

\* The mismatch rate between the two keys, as the detector computes it.
DetectorRate == AppCalculateErrorRate(key_alice, key_bob).value

\* C18: the result of a key-exchange run handed to the caller carries the
\* shared key, the eavesdropping flag and an error rate; the error_rate is
\* the mismatch rate between key_alice and key_bob computed by the
\* detector, a number in [0, 1], and the flag (success is its negation) is
\* the detector's eve_detected for that same rate.
C18_ResultCarriesRate ==
    ResultHandedOver =>
        /\ response.key = KeyStr(key_alice)
        /\ response.success = ~RateGT(DetectorRate, <<1, 4>>)
        /\ response.error_rate \notin BOOLEAN
        /\ response.error_rate = DetectorRate

-----------------------------------------------------------------------------
(* Claims about the eavesdropping test of bb84_protocol, checked under     *)
(* SpecTest.                                                               *)

\* The sampled indices at which the keys differ.
SampledMismatches == {i \in test_bits : key_alice[i] # key_bob[i]}

\* C14: for a non-empty sifted key of length L the test compares the keys
\* at exactly min(3, L) distinct indices of the key and at no other, and
\* eve_detected is True exactly when mismatches / sampled > 0.25.
C14_SampleOfThree ==
    (pc = "done" /\ Len(key_alice) > 0) =>
        /\ test_bits \subseteq 1..Len(key_alice)
        /\ Cardinality(test_bits)
             = (IF Len(key_alice) < 3 THEN Len(key_alice) ELSE 3)
        /\ eve_detected
             = (4 * Cardinality(SampledMismatches) > Cardinality(test_bits))

\* A key of four bits whose only mismatch is at the index left out of the
\* sample: the test does not see it.
C14_Witness ==
    /\ pc = "done"
    /\ Len(key_alice) = 4
    /\ \E i \in 1..4 : /\ i \notin test_bits
                        /\ key_alice[i] # key_bob[i]
    /\ SampledMismatches = {}
    /\ eve_detected = FALSE

-----------------------------------------------------------------------------
(* Claims about validate_measurements, checked under SpecValidate. *)

ValidateReturned == phase = "returned" /\ call.fn = "validate_measurements"

\* The record carries the three required fields, its error_rate lies in
\* [0, 1] and its two sequences have the same length.
RecordIsValid(record) ==
    /\ \A field \in {"measured", "received", "error_rate"} :
          field \in DOMAIN record
    /\ 0 <= record.error_rate[1]
    /\ record.error_rate[1] <= record.error_rate[2]
    /\ Len(record.measured) = Len(record.received)

AllRecordsValid ==
    \A i \in 1..Len(call.measurements) : RecordIsValid(call.measurements[i])

\* C15 as stated: for every list of records, the empty list included,
\* validate_measurements returns True exactly when every record is valid.
C15_ValidIffAllRecordsValid ==
    ValidateReturned => (ret.value = AllRecordsValid)

\* C15, amended: for every non-empty list of records validate_measurements
\* returns True exactly when every record is valid; for the empty list it
\* returns False.
C15_ValidIffNonEmptyAndAllValid ==
    ValidateReturned
        => (ret.value = (call.measurements # <<>> /\ AllRecordsValid))

\* A list whose first record is valid and whose second has an error_rate
\* above 1 and is valid otherwise has been refused.
C15_Witness ==
    /\ ValidateReturned
    /\ Len(call.measurements) = 2
    /\ RecordIsValid(call.measurements[1])
    /\ "error_rate" \in DOMAIN call.measurements[2]
    /\ call.measurements[2].error_rate = <<3, 2>>
    /\ Len(call.measurements[2].measured)
         = Len(call.measurements[2].received)
    /\ ret.value = FALSE

-----------------------------------------------------------------------------
(* Claims about concurrent requests, checked under SpecRequests. *)

\* What request r has handed out with a key and a flag in it: its entries
\* of the chat history, its emits, and its response.
HandedOut(r) ==
    {chat_history[Senders[r]][i] : i \in DOMAIN chat_history[Senders[r]]}
      \cup {[key |-> emitted[i].encryption_details.key,
              eve_detected |-> emitted[i].eve_detected] :
               i \in {j \in DOMAIN emitted : emitted[j].sender = Senders[r]}}
      \cup (IF /\ requests[r].pc = "done"
                /\ requests[r].handler = "handle_message"
                /\ "eve_detected" \in DOMAIN requests[r].returned
             THEN {requests[r].returned}
             ELSE {})

\* The key a request hands out is the key it computed itself.
KeysAreOwn ==
    \A r \in Requests :
       /\ \A out \in HandedOut(r) : out.key = requests[r].computed.key
       /\ (/\ requests[r].pc = "done"
           /\ requests[r].handler = "exchange_key"
           /\ "key" \in DOMAIN requests[r].returned)
            => requests[r].returned.key = requests[r].computed.key

\* The flag a request hands out is the flag it computed itself.
FlagsAreOwn ==
    \A r \in Requests :
       \A out \in HandedOut(r) :
          out.eve_detected = requests[r].computed.eve_detected

\* C17: under every interleaving of two concurrent requests, the key and
\* the eve_detected flag that a request stores in the chat history, emits
\* and returns are the ones computed by that same request; nothing that
\* the other request wrote to quantum_state shows in them.
C17_RequestsIsolated == KeysAreOwn /\ FlagsAreOwn

-----------------------------------------------------------------------------
(* Claims about the cipher functions, checked under SpecCipher. *)

\* A ciphertext has been decrypted with the key it was encrypted with.
DecryptedWithSameKey ==
    /\ phase = "returned"
    /\ \/ call.fn = "decrypt_message" /\ call.key = call.encrypted_with
       \/ /\ call.fn = "app.decrypt_message"
          /\ call.shared_bits = call.encrypted_with

\* C19: decrypt(encrypt(m, k), k) == m for every message m, the empty one
\* and those filling whole blocks of 16 bytes included, and every valid
\* key k: the IV put in front and the padding added by encrypt are removed
\* exactly by decrypt.
C19_RoundTrip ==
    DecryptedWithSameKey => (~ret.raised /\ ret.value = call.message)

\* A message of 16 bytes that ends in a byte 1 has gone through encrypt and
\* decrypt of encryption.py and come back.
C19_Witness ==
    /\ DecryptedWithSameKey
    /\ call.fn = "decrypt_message"
    /\ Len(call.message) = 16
    /\ call.message[16] = 1
    /\ ret.value = call.message

\* A ciphertext made by app.encrypt_message has been decrypted with the
\* key derived from another sifted key.
DecryptedWithOtherBits ==
    /\ phase = "returned"
    /\ call.fn = "app.decrypt_message"
    /\ call.shared_bits # call.encrypted_with

\* C20 as stated: a ciphertext made with the key that generate_key derives
\* from one sifted bit sequence fails to decrypt under the key derived from
\* any different bit sequence, whatever the lengths.
C20_OtherBitsFail == DecryptedWithOtherBits => ret.raised

\* The first 32 bits of a sifted key, all of it when it is shorter.
First32(shared_bits) ==
    SubSeq(shared_bits, 1,
           IF Len(shared_bits) < 32 THEN Len(shared_bits) ELSE 32)

\* C20, amended: the ciphertext fails to decrypt under the key derived
\* from a bit sequence that differs from the first within the first 32
\* bits; two sequences that agree on their first 32 bits derive the same
\* key, and the second decrypts what the first encrypted.
C20_OtherFirst32Fail ==
    DecryptedWithOtherBits =>
        IF First32(call.shared_bits) # First32(call.encrypted_with)
        THEN ret.raised
        ELSE ~ret.raised /\ ret.value = call.message

\* Decryption has been refused under the key of a sifted key that is one
\* bit longer than the one used to encrypt, both shorter than 32 bits.
C20_Witness ==
    /\ DecryptedWithOtherBits
    /\ Len(call.encrypted_with) = 3
    /\ call.shared_bits = call.encrypted_with \o <<0>>
    /\ ret.raised

-----------------------------------------------------------------------------
(* Claims about the runs of bb84_protocol with an eavesdropper, checked    *)
(* under SpecBB84.                                                         *)

\* Alice has drawn her bits and bases in a run with eve_present = True.
EveRunPrepared == pc = "eve" /\ eve_present /\ num_bits > 0

\* The draws that give a sifted key of the given length.
DrawsOfLength(len_key) ==
    {draw \in Draws(num_bits) :
        Len(KeysWith(alice_bits, alice_bases, draw, num_bits)[1]) = len_key}

\* The differing key positions of all the draws that give a sifted key of
\* the given length, one pair per draw and position.
MismatchesOfLength(len_key) ==
    {p \in DrawsOfLength(len_key) \X (1..len_key) :
        p[2] \in Mismatches(KeysWith(alice_bits, alice_bases, p[1],
                                     num_bits))}

\* C21: with eve_present = True the expected fraction of key positions at
\* which key_alice and key_bob differ is 0.25, the value the observed
\* fraction converges to over many runs: for every key length L > 0, over
\* the equally likely draws that give a key of length L, the differing
\* positions are a quarter of all key positions.  The draws are the runs:
\* measure_qubit with a drawn value returns what measure_qubit can return.
C21_ExpectedMismatchQuarter ==
    /\ EveRunPrepared =>
          \A len_key \in 1..num_bits :
              4 * Cardinality(MismatchesOfLength(len_key))
                  = len_key * Cardinality(DrawsOfLength(len_key))
    /\ pc = "bob_measure" =>
          \A i \in 1..num_bits :
              MeasureQubit(qubits[i], bob_bases[i])
                  = {MeasureQubitWith(qubits[i], bob_bases[i], drawn) :
                        drawn \in Bit}

\* Alice has prepared two qubits, and of the runs that follow some give
\* two-bit keys that differ in both positions.
C21_Witness ==
    /\ EveRunPrepared
    /\ num_bits = 2
    /\ \E draw \in DrawsOfLength(2) :
          Mismatches(KeysWith(alice_bits, alice_bases, draw, 2)) = {1, 2}

\* A run with eve_present = True has sifted its keys.
EveRunSifted == eve_present /\ pc \in {"test", "done"}

\* The indices at which Alice's and Bob's bases agree, in order: position j
\* of the sifted keys holds the bits of index SiftedIndices[j].
SiftedIndices ==
    SelectSeq([i \in 1..num_bits |-> i],
              LAMBDA i : alice_bases[i] = bob_bases[i])

\* C22: in a run with eve_present = True, at every index where Eve's basis
\* and Bob's basis both equal Alice's, Bob's bit equals Alice's bit; so
\* key_alice and key_bob differ only at sifted positions whose index has
\* eve_bases # alice_bases.
C22_MismatchOnlyWhereEveMissed ==
    EveRunSifted =>
        /\ \A i \in 1..num_bits :
              (eve_bases[i] = alice_bases[i] /\ bob_bases[i] = alice_bases[i])
                  => bob_bits[i] = alice_bits[i]
        /\ Len(SiftedIndices) = Len(key_alice)
        /\ \A j \in 1..Len(key_alice) :
              key_alice[j] # key_bob[j]
                  => eve_bases[SiftedIndices[j]] # alice_bases[SiftedIndices[j]]

\* A run in which Eve used Alice's basis at the first index and the other
\* basis at the second, Bob used Alice's at both, and the keys differ at the
\* second position only.
C22_Witness ==
    /\ EveRunSifted
    /\ pc = "done"
    /\ num_bits = 2
    /\ Len(key_alice) = 2
    /\ eve_bases[1] = alice_bases[1]
    /\ eve_bases[2] # alice_bases[2]
    /\ key_alice[1] = key_bob[1]
    /\ key_alice[2] # key_bob[2]

-----------------------------------------------------------------------------
(* Claims about the runs of bb84_protocol without an eavesdropper, checked *)
(* under SpecBB84.                                                         *)

\* A run with eve_present = False has returned.
HonestRunReturned == pc = "done" /\ ~eve_present

\* C23: with eve_present = False, bb84_protocol returns eve_detected = True
\* if and only if the sifted key is empty; an honest run in which at least
\* one basis of Bob agrees with Alice's is never flagged.
C23_HonestFlaggedIffEmptyKey ==
    HonestRunReturned =>
        /\ eve_detected <=> Len(key_alice) = 0
        /\ (\E i \in 1..num_bits : alice_bases[i] = bob_bases[i])
              => ~eve_detected

\* An honest run of two qubits with both bases agreeing has returned
\* unflagged.
C23_Witness ==
    /\ HonestRunReturned
    /\ num_bits = 2
    /\ alice_bases = bob_bases
    /\ Len(key_alice) = 2
    /\ ~eve_detected

-----------------------------------------------------------------------------
(* Claims about the two copies of the detector functions, checked under    *)
(* SpecDuplicates.                                                         *)

\* Both copies of a function have been called with the same arguments.
BothReturned == phase = "returned" /\ "app_returned" \in DOMAIN call

\* C24: the duplicated detectors agree: for every pair of arguments
\* app.calculate_error_rate returns what eve_detection.calculate_error_rate
\* returns, and app.detect_eve(a, b) returns the flag that
\* eve_detection.detect_eve(a, b, threshold=0.25) returns.
C24_DuplicatesAgree ==
    BothReturned =>
        /\ ~ret.raised
        /\ ~call.app_returned.raised
        /\ call.fn = "calculate_error_rate"
              => ret.value = call.app_returned.value
        /\ call.fn = "detect_eve"
              => ret.value[1] = call.app_returned.value

\* Both detect_eve functions have been called with strings of length 4 that
\* differ in one place, an error rate of exactly 0.25, and neither flags it.
C24_Witness ==
    /\ BothReturned
    /\ call.fn = "detect_eve"
    /\ call.a # NoLength
    /\ call.b # NoLength
    /\ Len(call.a) = 4
    /\ Len(call.b) = 4
    /\ ZipErrors(call.a, call.b) = 1
    /\ ret.value = <<FALSE, <<1, 4>>>>
    /\ call.app_returned.value = FALSE

-----------------------------------------------------------------------------
(* Claims about a detector validating its own history, checked under       *)
(* SpecDetector.                                                           *)

\* validate_measurements(measurement_history) has returned on a detector
\* on which detect_eve has been called at least once.
HistoryValidated ==
    /\ phase = "returned"
    /\ call.fn = "EveDetector.validate_measurements"
    /\ Len(measurement_history) > 0

\* The detect_eve calls made with two strings of unequal length; each call
\* has left its arguments in the history.
UnequalCalls ==
    {i \in 1..Len(measurement_history) :
        Len(measurement_history[i].measured)
            # Len(measurement_history[i].received)}

\* C25: on an EveDetector on which detect_eve has been called one or more
\* times with strings, validate_measurements(measurement_history) returns
\* True if and only if every one of those calls was made with two strings
\* of equal length; a call with unequal lengths is recorded with error_rate
\* 1.0 and makes the history fail the detector's own validation.
C25_HistoryValidIffEqualLengths ==
    /\ HistoryValidated =>
          /\ ~ret.raised
          /\ ret.value <=> UnequalCalls = {}
    /\ \A i \in UnequalCalls : measurement_history[i].error_rate = One

\* Two calls, the first with strings of equal length and the second with
\* strings of unequal length, and the history has been refused.
C25_Witness ==
    /\ HistoryValidated
    /\ Len(measurement_history) = 2
    /\ UnequalCalls = {2}
    /\ ret.value = FALSE

====
